---- MODULE Spec2Model ----
(***************************************************************************)
(* A model of the chronicle.rs core:                                       *)
(*   - the launcher! control loop (chronicle-common/src/macros/launcher.rs)*)
(*   - SyncData and MilestoneData    (chronicle-broker/src/types.rs)       *)
(*   - the composition in permanode/src/main.rs                            *)
(* Each part has its own specification over the shared variable list; the  *)
(* variables of the other parts stay at their idle values.                 *)
(***************************************************************************)
EXTENDS Integers, Sequences, FiniteSets, TLC

\* ------------------------------------------------------------------ bounds
\* Milestone indexes of a queried range are drawn from 0..MaxIndex.
MaxIndex == 4

\* At most MaxEvents events are sent on the launcher's channel in one run.
MaxEvents == 3

\* A crash-looping component goes through at most MaxCrashes cycles of
\* registering and acknowledging an unrequested shutdown.
MaxCrashes == 3

\* The counters of an Analytics are u128; MaxCount stands for u128::MAX.
MaxCount == 3

VARIABLES
    \* the launcher: Apps and its event channel
    rx,                \* the events queued on the unbounded channel, oldest first
    apps,              \* Apps.apps: app name -> Option<shutdown handle>
    dashboards,        \* Apps.dashboards: dashboard name -> Option<dashboard handle>
    running,           \* one_for_one: "running" | "stopped" | "panicked"
    sent,              \* how many events the producers have sent
    processed,         \* how many events one_for_one has taken off the channel
    served,            \* the event taken last and what its handler did
    hist,              \* per app name, the last registry events that were handled
    \* SyncData::try_fetch and the take_* operations
    sync_range,        \* the SyncRange {from, to} handed to try_fetch
    select_response,   \* what the worker answers on the response channel
    fetch,             \* "pending" | "built" | "error" | "panicked"
    sync_data,         \* the SyncData value
    taken,             \* the last take_* call and what it returned
    requests,          \* how many select requests try_fetch has sent to the worker
    drained,           \* the ranges the take_* calls have returned, in order
    \* MilestoneData
    milestone_data,    \* the MilestoneData value
    ms_call,           \* the last operation called on it
    \* Analytics
    analytics,         \* the outcome of the last Analytics addition
    an_call,           \* the operands of that addition
    \* the composition of permanode's main
    declaration,       \* component -> the components that must run before it
    started,           \* the components started so far, in order
    phase              \* "composing" | "rejected" | "loop"

launcher_vars == <<rx, apps, dashboards, running, sent, processed, served, hist>>
sync_vars == <<sync_range, select_response, fetch, sync_data, taken, requests, drained>>
ms_vars == <<milestone_data, ms_call>>
compose_vars == <<declaration, started, phase>>
analytics_vars == <<analytics, an_call>>

vars == <<rx, apps, dashboards, running, sent, processed, served, hist,
          sync_range, select_response, fetch, sync_data, taken, requests, drained,
          milestone_data, ms_call, analytics, an_call,
          declaration, started, phase>>

\* ------------------------------------------------------------- Option<T>
\* Option::None is the empty tuple, Option::Some(x) the one-element tuple.
None == <<>>
Some(x) == <<x>>
is_some(o) == o # None
is_none(o) == o = None
unwrap(o) == o[1]

\* ------------------------------------------------------- Vec<Range<u32>>
Range(s, e) == [start |-> s, end |-> e]
last(v) == v[Len(v)]
pop(v) == SubSeq(v, 1, Len(v) - 1)

\* u32 values are written as integers; the one value a wrapping subtraction
\* can produce below zero, 2^32 - 1, is written -1 (its residue modulo 2^32),
\* so that the wrapping addition of one gives 0 as it does on u32.
wrapping_sub_one(x) == x - 1
wrapping_add_one(x) == x + 1

\* ============================================================== launcher
\* The $app identifiers permanode's main hands to launcher!.
DeclaredApps == {"Scylla", "PermanodeAPI", "PermanodeBroker"}

\* The names events are sent with: two declared apps and a name that is not
\* an $app of the launcher.
AppNames == {"Scylla", "PermanodeBroker", "Unlisted"}
DashboardNames == {"d1", "d2"}
ShutdownHandles == {1, 2}
DashboardHandles == {1, 2}

\* enum Event; name and handle are "" and 0 where the variant has none.
Event(type, name, handle) == [type |-> type, name |-> name, handle |-> handle]

Events ==
    { Event(t, n, 0) : <<t, n>> \in {"StartApp", "ShutdownApp", "AknShutdown"} \X AppNames }
    \cup { Event("RegisterApp", n, h) : <<n, h>> \in AppNames \X ShutdownHandles }
    \cup { Event("RegisterDashboard", n, h) : <<n, h>> \in DashboardNames \X DashboardHandles }
    \cup { Event("AppsStatus", "d1", 0), Event("Break", "", 0) }

\* What a handler does besides changing the maps, in the order it does it:
\* the build().run() of an app, shutdown() on a handle, or one pass over
\* self.dashboards calling started_app / shutdown_app on each handle.
Run(app_name) == [kind |-> "run", app |-> app_name, handle |-> 0, to |-> {}]
ShutdownCall(app_name, h) == [kind |-> "shutdown", app |-> app_name, handle |-> h, to |-> {}]
Notify(what, app_name, to) == [kind |-> what, app |-> app_name, handle |-> 0, to |-> to]

\* The (name, handle) pairs held in self.dashboards.
Registered(map) == { <<n, unwrap(map[n])>> : n \in { k \in DOMAIN map : is_some(map[k]) } }

\* The state a handler works on: the two maps, whether the loop goes on, and
\* what the handler has done so far.
Entered == [apps |-> apps, dashboards |-> dashboards, running |-> "running", effects |-> <<>>]

started_app_all(st, app_name) ==
    [st EXCEPT !.effects = Append(@, Notify("started_app", app_name, Registered(st.dashboards)))]

shutdown_app_all(st, app_name) ==
    [st EXCEPT !.effects = Append(@, Notify("shutdown_app", app_name, Registered(st.dashboards)))]

\* Apps::start_app: the match on the $app names, unreachable!() otherwise.
start_app(st, app_name) ==
    IF app_name \in DeclaredApps
    THEN [st EXCEPT !.effects = Append(@, Run(app_name))]
    ELSE [st EXCEPT !.running = "panicked"]

on_register_dashboard_announces(st, dashboard_name, dashboard_tx) ==
    [st EXCEPT !.dashboards[dashboard_name] = Some(dashboard_tx),
               !.effects = Append(@, Notify("started_app", "",
                                            {<<dashboard_name, dashboard_tx>>}))]

on_register_dashboard(st, dashboard_name, dashboard_tx) ==
    [st EXCEPT !.dashboards[dashboard_name] = Some(dashboard_tx)]

on_register_app_keeps_first(st, app_name, shutdown_tx) ==
    IF is_some(st.apps[app_name])
    THEN started_app_all(st, app_name)
    ELSE started_app_all([st EXCEPT !.apps[app_name] = Some(shutdown_tx)], app_name)

on_register_app(st, app_name, shutdown_tx) ==
    started_app_all([st EXCEPT !.apps[app_name] = Some(shutdown_tx)], app_name)

on_start_app_notifies_first(st, app_name) ==
    LET s1 == start_app(started_app_all(st, app_name), app_name) IN
    IF s1.running = "panicked" THEN [s1 EXCEPT !.effects = <<>>] ELSE s1

on_start_app(st, app_name) ==
    LET s1 == start_app(st, app_name) IN
    IF s1.running = "panicked" THEN s1 ELSE started_app_all(s1, app_name)

on_shutdown_app_notifies(st, app_name) ==
    IF is_some(st.apps[app_name])
    THEN shutdown_app_all(
            [st EXCEPT !.apps[app_name] = None,
                       !.effects = Append(@, ShutdownCall(app_name, unwrap(st.apps[app_name])))],
            app_name)
    ELSE shutdown_app_all(st, app_name)

on_shutdown_app_keeps_handle(st, app_name) ==
    IF is_some(st.apps[app_name])
    THEN [st EXCEPT !.effects = Append(@, ShutdownCall(app_name, unwrap(st.apps[app_name])))]
    ELSE st

on_shutdown_app(st, app_name) ==
    IF is_some(st.apps[app_name])
    THEN [st EXCEPT !.apps[app_name] = None,
                    !.effects = Append(@, ShutdownCall(app_name, unwrap(st.apps[app_name])))]
    ELSE st

on_akn_shutdown_restarts_all(st, app_name) ==
    IF is_some(st.apps[app_name])
    THEN started_app_all(
            [st EXCEPT !.apps = [n \in DOMAIN st.apps |-> None],
                       !.effects = @ \o <<Run("Scylla"), Run("PermanodeAPI"),
                                          Run("PermanodeBroker")>>],
            app_name)
    ELSE shutdown_app_all(st, app_name)

on_akn_shutdown_keeps_handle(st, app_name) ==
    IF is_some(st.apps[app_name])
    THEN LET s1 == start_app(st, app_name) IN
         IF s1.running = "panicked" THEN s1 ELSE started_app_all(s1, app_name)
    ELSE shutdown_app_all(st, app_name)

on_akn_shutdown_never_restarts(st, app_name) ==
    shutdown_app_all([st EXCEPT !.apps[app_name] = None], app_name)

on_akn_shutdown(st, app_name) ==
    IF is_some(st.apps[app_name])
    THEN LET s1 == start_app([st EXCEPT !.apps[app_name] = None], app_name) IN
         IF s1.running = "panicked" THEN s1 ELSE started_app_all(s1, app_name)
    ELSE shutdown_app_all(st, app_name)

on_break(st) == [st EXCEPT !.running = "stopped"]

\* The catch-all arm: todo!().
on_other(st) == [st EXCEPT !.running = "panicked"]

\* self.rx.0.recv(): the position in the queue of the event handed out.
recv_newest(queue) == Len(queue)

recv(queue) == 1

without(queue, i) == SubSeq(queue, 1, i - 1) \o SubSeq(queue, i + 1, Len(queue))

\* The event one_for_one is about to take.
event == rx[recv(rx)].ev

NoEvent == Event("none", "", 0)
NoHist == [rs |-> "none", rsa |-> "none"]

\* hist[x].rs: the last of RegisterApp(x) / ShutdownApp(x) handled so far;
\* hist[x].rsa: the last of RegisterApp(x) / ShutdownApp(x) / AknShutdown(x).
record_hist(h, ev) ==
    IF ev.type \in {"RegisterApp", "ShutdownApp"}
    THEN [h EXCEPT ![ev.name] = [rs |-> ev.type, rsa |-> ev.type]]
    ELSE IF ev.type = "AknShutdown"
    THEN [h EXCEPT ![ev.name].rsa = ev.type]
    ELSE h

NoServed == [ev |-> NoEvent, seq |-> 0, effects |-> <<>>]

\* impl LauncherTx for Sender: a producer sends one event; the send is
\* dropped once the receiver is gone.
send ==
    /\ sent < MaxEvents
    /\ \E ev \in Events :
          rx' = IF running = "running" THEN Append(rx, [ev |-> ev, seq |-> sent + 1]) ELSE rx
    /\ sent' = sent + 1
    /\ UNCHANGED <<apps, dashboards, running, processed, served, hist>>
    /\ UNCHANGED <<sync_vars, ms_vars, compose_vars, analytics_vars>>

\* One turn of the `while let` loop of one_for_one on an event of `type`,
\* leaving the handler's result `out`.
turn(type, out) ==
    /\ running = "running"
    /\ rx # <<>>
    /\ event.type = type
    /\ rx' = without(rx, recv(rx))
    /\ apps' = out.apps
    /\ dashboards' = out.dashboards
    /\ running' = out.running
    /\ processed' = processed + 1
    /\ served' = [ev |-> event, seq |-> rx[recv(rx)].seq, effects |-> out.effects]
    /\ hist' = record_hist(hist, event)
    /\ UNCHANGED sent
    /\ UNCHANGED <<sync_vars, ms_vars, compose_vars, analytics_vars>>

RegisterDashboard ==
    turn("RegisterDashboard", on_register_dashboard(Entered, event.name, event.handle))
RegisterApp == turn("RegisterApp", on_register_app(Entered, event.name, event.handle))
StartApp == turn("StartApp", on_start_app(Entered, event.name))
ShutdownApp == turn("ShutdownApp", on_shutdown_app(Entered, event.name))
AknShutdown == turn("AknShutdown", on_akn_shutdown(Entered, event.name))
Break == turn("Break", on_break(Entered))
AppsStatus == turn("AppsStatus", on_other(Entered))

one_for_one ==
    \/ RegisterDashboard
    \/ RegisterApp
    \/ StartApp
    \/ ShutdownApp
    \/ AknShutdown
    \/ Break
    \/ AppsStatus

Next == send \/ one_for_one

\* The last RegisterApp(x) / ShutdownApp(x) / AknShutdown(x) that was sent:
\* the newest one still queued, else the last one handled.
LastSent(x) ==
    LET queued == { j \in DOMAIN rx :
                      /\ rx[j].ev.name = x
                      /\ rx[j].ev.type \in {"RegisterApp", "ShutdownApp", "AknShutdown"} }
    IN IF queued = {}
       THEN hist[x].rsa
       ELSE rx[CHOOSE j \in queued : \A k \in queued : k <= j].ev.type

\* A crash-looping component: once running it sends register_app, and once
\* registered it stops on its own and sends aknowledge_shutdown; after that
\* it registers again only when the loop has handled the acknowledgment and
\* run it anew.
send_crash_loop ==
    /\ running = "running"
    /\ sent < 2 * MaxCrashes
    /\ \E x \in AppNames \cap DeclaredApps :
          \/ /\ LastSent(x) = "RegisterApp"
             /\ rx' = Append(rx, [ev |-> Event("AknShutdown", x, 0), seq |-> sent + 1])
          \/ /\ LastSent(x) \in {"none", "AknShutdown"}
             /\ LastSent(x) = hist[x].rsa
             /\ \E h \in ShutdownHandles :
                   rx' = Append(rx, [ev |-> Event("RegisterApp", x, h), seq |-> sent + 1])
    /\ sent' = sent + 1
    /\ UNCHANGED <<apps, dashboards, running, processed, served, hist>>
    /\ UNCHANGED <<sync_vars, ms_vars, compose_vars, analytics_vars>>

CrashLoopNext == send_crash_loop \/ RegisterApp \/ AknShutdown

\* --------------------------------------------------------------- SyncData
SyncData_default == [completed |-> <<>>, synced_but_unlogged |-> <<>>, gaps |-> <<>>]

proceed_never_extends(ranges, milestone_index, check) ==
    Append(ranges, Range(milestone_index, wrapping_add_one(milestone_index)))

proceed(ranges, milestone_index, check) ==
    LET end_ms == wrapping_add_one(milestone_index) IN
    IF ranges # <<>>
    THEN IF check /\ last(ranges).start = end_ms
         THEN [ranges EXCEPT ![Len(ranges)].start = milestone_index]
         ELSE Append(ranges, Range(milestone_index, end_ms))
    ELSE Append(ranges, Range(milestone_index, end_ms))

process_rest_marks_gap(sd, logged_by, milestone_index, pre_lb) ==
    IF is_some(logged_by)
    THEN [sd EXCEPT !.completed = proceed(@, milestone_index, is_some(pre_lb))]
    ELSE [sd EXCEPT !.synced_but_unlogged = proceed(@, milestone_index, is_none(pre_lb)),
                    !.gaps = Append(@, Range(milestone_index, wrapping_add_one(milestone_index)))]

process_rest_swapped(sd, logged_by, milestone_index, pre_lb) ==
    IF is_some(logged_by)
    THEN [sd EXCEPT !.synced_but_unlogged = proceed(@, milestone_index, is_none(pre_lb))]
    ELSE [sd EXCEPT !.completed = proceed(@, milestone_index, is_some(pre_lb))]

process_rest(sd, logged_by, milestone_index, pre_lb) ==
    IF is_some(logged_by)
    THEN [sd EXCEPT !.completed = proceed(@, milestone_index, is_some(pre_lb))]
    ELSE [sd EXCEPT !.synced_but_unlogged = proceed(@, milestone_index, is_none(pre_lb))]

process_gaps_off_by_one(sd, pre_ms, milestone_index) ==
    IF milestone_index # pre_ms
    THEN [sd EXCEPT !.gaps = Append(@, Range(milestone_index, pre_ms))]
    ELSE sd

process_gaps_unconditional(sd, pre_ms, milestone_index) ==
    [sd EXCEPT !.gaps = Append(@, Range(wrapping_add_one(milestone_index), pre_ms))]

process_gaps(sd, pre_ms, milestone_index) ==
    LET gap_start == wrapping_add_one(milestone_index) IN
    IF gap_start # pre_ms
    THEN [sd EXCEPT !.gaps = Append(@, Range(gap_start, pre_ms))]
    ELSE sd

\* The `while let Some(..) = sync_rows.next()` loop of try_fetch.
RECURSIVE process_rows(_, _, _, _)
process_rows(sd, rows, pre_ms, pre_lb) ==
    IF rows = <<>>
    THEN [sd |-> sd, pre_ms |-> pre_ms]
    ELSE LET row == Head(rows)
             sd1 == process_gaps(sd, pre_ms, row.milestone_index)
             sd2 == process_rest(sd1, row.logged_by, row.milestone_index, pre_lb)
         IN process_rows(sd2, Tail(rows), row.milestone_index, row.logged_by)

\* The Some(sync_rows) branch of try_fetch, for a non-empty row iterator, up
\* to (not including) the final process_gaps call.
build_from_rows(range, rows) ==
    LET first == Head(rows)
        sd1 == process_gaps(SyncData_default, range.to, first.milestone_index)
        sd2 == process_rest(sd1, first.logged_by, first.milestone_index, None)
    IN process_rows(sd2, Tail(rows), first.milestone_index, first.logged_by)

\* ------------------------------------------------------ take_* operations
\* Each returns the SyncData left behind (sd) and the returned Option (ret).
take_lowest_gap(sd) ==
    IF sd.gaps = <<>>
    THEN [sd |-> sd, ret |-> None]
    ELSE [sd |-> [sd EXCEPT !.gaps = pop(@)], ret |-> Some(last(sd.gaps))]

take_lowest_unlogged(sd) ==
    IF sd.synced_but_unlogged = <<>>
    THEN [sd |-> sd, ret |-> None]
    ELSE [sd |-> [sd EXCEPT !.synced_but_unlogged = pop(@)],
          ret |-> Some(last(sd.synced_but_unlogged))]

take_lowest_gap_or_unlogged_reversed(sd) ==
    IF sd.gaps # <<>> /\ sd.synced_but_unlogged # <<>>
    THEN IF last(sd.gaps).start > last(sd.synced_but_unlogged).start
         THEN take_lowest_gap(sd)
         ELSE take_lowest_unlogged(sd)
    ELSE IF sd.gaps # <<>> THEN take_lowest_gap(sd)
    ELSE IF sd.synced_but_unlogged # <<>> THEN take_lowest_unlogged(sd)
    ELSE [sd |-> sd, ret |-> None]

take_lowest_gap_or_unlogged(sd) ==
    IF sd.gaps # <<>> /\ sd.synced_but_unlogged # <<>>
    THEN IF last(sd.gaps).start < last(sd.synced_but_unlogged).start
         THEN take_lowest_gap(sd)
         ELSE take_lowest_unlogged(sd)
    ELSE IF sd.gaps # <<>> THEN take_lowest_gap(sd)
    ELSE IF sd.synced_but_unlogged # <<>> THEN take_lowest_unlogged(sd)
    ELSE [sd |-> sd, ret |-> None]

get_lowest_gap_or_unlogged_gaps_only(sd) ==
    IF sd.gaps # <<>> THEN Some(last(sd.gaps)) ELSE None

get_lowest_gap_or_unlogged(sd) ==
    IF sd.gaps # <<>> /\ sd.synced_but_unlogged # <<>>
    THEN IF last(sd.gaps).start < last(sd.synced_but_unlogged).start
         THEN Some(last(sd.gaps))
         ELSE Some(last(sd.synced_but_unlogged))
    ELSE IF sd.gaps # <<>> THEN Some(last(sd.gaps))
    ELSE IF sd.synced_but_unlogged # <<>> THEN Some(last(sd.synced_but_unlogged))
    ELSE None

\* The `loop` of take_lowest_uncomplete, entered with the first range taken.
RECURSIVE uncomplete_loop(_, _)
uncomplete_loop(sd, pre_range) ==
    LET next_range == get_lowest_gap_or_unlogged(sd) IN
    IF is_some(next_range)
    THEN IF unwrap(next_range).start = pre_range.end
         THEN uncomplete_loop(take_lowest_gap_or_unlogged(sd).sd,
                              [pre_range EXCEPT !.end = unwrap(next_range).end])
         ELSE [sd |-> sd, ret |-> Some(pre_range)]
    ELSE [sd |-> sd, ret |-> Some(pre_range)]

take_lowest_uncomplete_no_merge(sd) ==
    take_lowest_gap_or_unlogged(sd)

take_lowest_uncomplete(sd) ==
    LET first == take_lowest_gap_or_unlogged(sd) IN
    IF is_some(first.ret)
    THEN uncomplete_loop(first.sd, unwrap(first.ret))
    ELSE [sd |-> sd, ret |-> None]

\* ------------------------------------------------- inputs of try_fetch
LoggedBy == {None, Some(1)}

\* The strictly descending record streams with indexes in from..(below - 1).
RECURSIVE StreamsBelow(_, _)
StreamsBelow(from, below) ==
    {<<>>} \cup
    UNION { { <<[milestone_index |-> i, logged_by |-> lb]>> \o t :
                t \in StreamsBelow(from, i) } :
            <<i, lb>> \in (from .. below - 1) \X LoggedBy }

SyncRanges == { [from |-> f, to |-> t] : <<f, t>> \in
                  { p \in (0 .. MaxIndex) \X (0 .. MaxIndex) : p[1] <= p[2] } }

\* How the one request ends: build() fails before anything is sent, or the
\* request is sent and rx.recv().await yields the channel closed without a
\* response, the worker's error after its retries, Ok(None) or Ok(Some(rows)).
Responses(range) ==
    { [kind |-> k, rows |-> <<>>] : k \in {"BuildErr", "Closed", "Err", "None"} } \cup
    { [kind |-> "Some", rows |-> r] : r \in StreamsBelow(range.from, range.to) }

NoTake == [op |-> "none", ret |-> None]

\* `sync_range.from - 1` on u32: with overflow checks (a debug build) the
\* subtraction panics at from = 0, without them it wraps.
from_minus_one_outcomes(range) ==
    IF range.from = 0
    THEN {[panic |-> TRUE, value |-> 0], [panic |-> FALSE, value |-> wrapping_sub_one(0)]}
    ELSE {[panic |-> FALSE, value |-> range.from - 1]}

try_fetch_failed_returns_data ==
    /\ fetch = "pending"
    /\ select_response.kind \in {"BuildErr", "Closed", "Err"}
    /\ fetch' = "built"
    /\ sync_data' = process_gaps(SyncData_default, sync_range.to, sync_range.from - 1)
    /\ requests' = IF select_response.kind = "BuildErr" THEN requests ELSE requests + 1
    /\ UNCHANGED <<sync_range, select_response, taken, drained>>
    /\ UNCHANGED <<launcher_vars, ms_vars, compose_vars, analytics_vars>>

try_fetch_failed ==
    /\ fetch = "pending"
    /\ select_response.kind \in {"BuildErr", "Closed", "Err"}
    /\ fetch' = "error"
    /\ requests' = IF select_response.kind = "BuildErr" THEN requests ELSE requests + 1
    /\ UNCHANGED <<sync_range, select_response, sync_data, taken, drained>>
    /\ UNCHANGED <<launcher_vars, ms_vars, compose_vars, analytics_vars>>

try_fetch_none ==
    /\ fetch = "pending"
    /\ select_response.kind = "None"
    /\ \E o \in from_minus_one_outcomes(sync_range) :
          IF o.panic
          THEN fetch' = "panicked" /\ UNCHANGED sync_data
          ELSE /\ fetch' = "built"
               /\ sync_data' = process_gaps(SyncData_default, sync_range.to, o.value)
    /\ requests' = requests + 1
    /\ UNCHANGED <<sync_range, select_response, taken, drained>>
    /\ UNCHANGED <<launcher_vars, ms_vars, compose_vars, analytics_vars>>

try_fetch_some ==
    /\ fetch = "pending"
    /\ select_response.kind = "Some"
    /\ IF select_response.rows = <<>>
       THEN \* sync_rows.next().unwrap() on an exhausted iterator
            fetch' = "panicked" /\ UNCHANGED sync_data
       ELSE LET b == build_from_rows(sync_range, select_response.rows) IN
            \E o \in from_minus_one_outcomes(sync_range) :
               IF o.panic
               THEN fetch' = "panicked" /\ UNCHANGED sync_data
               ELSE /\ fetch' = "built"
                    /\ sync_data' = process_gaps(b.sd, b.pre_ms, o.value)
    /\ requests' = requests + 1
    /\ UNCHANGED <<sync_range, select_response, taken, drained>>
    /\ UNCHANGED <<launcher_vars, ms_vars, compose_vars, analytics_vars>>

try_fetch == try_fetch_failed \/ try_fetch_none \/ try_fetch_some

Take(op, result) ==
    /\ fetch = "built"
    /\ sync_data' = result.sd
    /\ taken' = [op |-> op, ret |-> result.ret]
    /\ drained' = IF is_some(result.ret) THEN Append(drained, unwrap(result.ret)) ELSE drained
    /\ UNCHANGED <<sync_range, select_response, fetch, requests>>
    /\ UNCHANGED <<launcher_vars, ms_vars, compose_vars, analytics_vars>>

call_take_lowest_gap == Take("take_lowest_gap", take_lowest_gap(sync_data))
call_take_lowest_unlogged == Take("take_lowest_unlogged", take_lowest_unlogged(sync_data))
call_take_lowest_gap_or_unlogged ==
    Take("take_lowest_gap_or_unlogged", take_lowest_gap_or_unlogged(sync_data))
call_take_lowest_uncomplete ==
    Take("take_lowest_uncomplete", take_lowest_uncomplete(sync_data))

\* try_fetch, then nothing but take_lowest_uncomplete.
DrainNext == try_fetch \/ call_take_lowest_uncomplete

SyncNext ==
    \/ try_fetch
    \/ call_take_lowest_gap
    \/ call_take_lowest_unlogged
    \/ call_take_lowest_gap_or_unlogged
    \/ call_take_lowest_uncomplete

\* ========================================================= MilestoneData
MessageIds == {"m1", "m2", "m3"}
\* The contents a milestone payload or a message can have.
Contents == {1, 2}
CreatedBy == {"Incoming", "Expected", "Syncer"}

FullMessage(message_id, content) == [message_id |-> message_id, content |-> content]

MilestoneData_new(milestone_index, created_by) ==
    [milestone_index |-> milestone_index,
     milestone |-> None,
     messages |-> [id \in MessageIds |-> None],
     pending |-> {},
     created_by |-> created_by]

set_milestone(md, boxed_milestone_payload) ==
    [md EXCEPT !.milestone = Some(boxed_milestone_payload)]

milestone_exist(md) == is_some(md.milestone)

add_full_message(md, full_message) ==
    [md EXCEPT !.messages[full_message.message_id] = Some(full_message)]

remove_from_pending_keeps(md, message_id) == md

remove_from_pending(md, message_id) ==
    [md EXCEPT !.pending = @ \ {message_id}]

\* The keys of the messages map, and the pending map as the set of its keys.
messages(md) == { id \in MessageIds : is_some(md.messages[id]) }
pending(md) == md.pending

\* A referenced message that has not been fetched yet is put into pending.
insert_pending(md, message_id) ==
    [md EXCEPT !.pending = @ \cup {message_id}]

\* The completion predicate: the payload is present and nothing is pending.
is_complete(md) == milestone_exist(md) /\ pending(md) = {}

MsCall(op, id, md) ==
    /\ milestone_data' = md
    /\ ms_call' = [op |-> op, id |-> id]
    /\ UNCHANGED <<launcher_vars, sync_vars, compose_vars, analytics_vars>>

call_set_milestone ==
    \E p \in Contents : MsCall("set_milestone", "", set_milestone(milestone_data, p))

call_add_full_message ==
    \E id \in MessageIds, c \in Contents :
        MsCall("add_full_message", id, add_full_message(milestone_data, FullMessage(id, c)))

call_remove_from_pending ==
    \E id \in MessageIds :
        MsCall("remove_from_pending", id, remove_from_pending(milestone_data, id))

call_insert_pending ==
    \E id \in MessageIds \ messages(milestone_data) :
        MsCall("insert_pending", id, insert_pending(milestone_data, id))

MsNext ==
    \/ call_set_milestone
    \/ call_add_full_message
    \/ call_remove_from_pending
    \/ call_insert_pending

\* ============================================================= Analytics
Counts == 0 .. MaxCount

\* struct Analytics.
Analytics(tc, mc, tt) ==
    [transaction_count |-> tc, message_count |-> mc, transferred_tokens |-> tt]

AnalyticsValues == { Analytics(c[1], c[2], c[3]) : c \in Counts \X Counts \X Counts }

\* The all-zero Analytics.
Analytics_zero == Analytics(0, 0, 0)

\* What an expression of type Analytics evaluates to: a value, or a panic.
Ok(a) == [panic |-> FALSE, value |-> a]
Panic == [panic |-> TRUE, value |-> Analytics_zero]

\* `+` on u128: when the sum does not fit, a build with overflow checks
\* panics and a build without them wraps.
u128_add(a, b, overflow_checks) ==
    IF a + b > MaxCount
    THEN IF overflow_checks THEN [panic |-> TRUE, value |-> 0]
         ELSE [panic |-> FALSE, value |-> (a + b) % (MaxCount + 1)]
    ELSE [panic |-> FALSE, value |-> a + b]

add_mixes_fields(self, other, overflow_checks) ==
    LET tc == u128_add(self.transaction_count, other.transaction_count, overflow_checks)
        mc == u128_add(self.message_count, other.transaction_count, overflow_checks)
        tt == u128_add(self.transferred_tokens, other.transferred_tokens, overflow_checks)
    IN IF tc.panic \/ mc.panic \/ tt.panic
       THEN Panic
       ELSE Ok(Analytics(tc.value, mc.value, tt.value))

\* impl Add for Analytics.
add(self, other, overflow_checks) ==
    LET tc == u128_add(self.transaction_count, other.transaction_count, overflow_checks)
        mc == u128_add(self.message_count, other.message_count, overflow_checks)
        tt == u128_add(self.transferred_tokens, other.transferred_tokens, overflow_checks)
    IN IF tc.panic \/ mc.panic \/ tt.panic
       THEN Panic
       ELSE Ok(Analytics(tc.value, mc.value, tt.value))

\* a + b where a is itself the outcome of an expression.
then_add(a, other, overflow_checks) ==
    IF a.panic THEN Panic ELSE add(a.value, other, overflow_checks)

NoAdd == [op |-> "none", lhs |-> Analytics_zero, rhs |-> Analytics_zero,
          overflow_checks |-> FALSE]

\* analytics = analytics + other, on the running sum.
call_add ==
    /\ ~analytics.panic
    /\ \E other \in AnalyticsValues :
          /\ analytics' = add(analytics.value, other, an_call.overflow_checks)
          /\ an_call' = [op |-> "add", lhs |-> analytics.value, rhs |-> other,
                         overflow_checks |-> an_call.overflow_checks]
    /\ UNCHANGED <<launcher_vars, sync_vars, ms_vars, compose_vars>>

AnalyticsNext == call_add

\* =========================================================== composition
Components == {"Scylla", "PermanodeAPI", "PermanodeBroker"}

\* launcher!( builder: AppsBuilder { [] -> PermanodeBroker, [] -> PermanodeAPI,
\* [PermanodeBroker, PermanodeAPI] -> Scylla } ): the bracketed components are
\* the ones that use the component after the arrow, so each of them needs it
\* running first.
MainDeclaration ==
    [c \in Components |-> IF c \in {"PermanodeBroker", "PermanodeAPI"} THEN {"Scylla"} ELSE {}]

MainOrder_consumers_first == <<"PermanodeBroker", "PermanodeAPI", "Scylla">>

\* main: apps.Scylla().await ... .PermanodeAPI().await.PermanodeBroker().await
MainOrder == <<"Scylla", "PermanodeAPI", "PermanodeBroker">>

Declarations == [Components -> SUBSET Components]

Started == { started[j] : j \in DOMAIN started }

\* What is left after removing, again and again, a component none of whose
\* requirements is left: empty exactly for a declaration without a cycle.
RECURSIVE Unordered(_, _)
Unordered(d, left) ==
    IF \E c \in left : d[c] \cap left = {}
    THEN Unordered(d, left \ {CHOOSE c \in left : d[c] \cap left = {}})
    ELSE left

CompositionCycle(d) == Unordered(d, Components) # {}

\* The components that may be started next: main's own sequence for main's
\* declaration, any component whose requirements all run for another one.
NextComponents ==
    IF declaration = MainDeclaration
    THEN IF Len(started) < Len(MainOrder) THEN {MainOrder[Len(started) + 1]} ELSE {}
    ELSE { c \in Components \ Started : declaration[c] \subseteq Started }

reject_cycle ==
    /\ phase = "composing"
    /\ CompositionCycle(declaration)
    /\ phase' = "rejected"
    /\ UNCHANGED <<declaration, started>>
    /\ UNCHANGED <<launcher_vars, sync_vars, ms_vars, analytics_vars>>

start_component ==
    /\ phase = "composing"
    /\ ~CompositionCycle(declaration)
    /\ \E c \in NextComponents : started' = Append(started, c)
    /\ UNCHANGED <<declaration, phase>>
    /\ UNCHANGED <<launcher_vars, sync_vars, ms_vars, analytics_vars>>

\* .start(None): the control loop is entered.
enter_loop ==
    /\ phase = "composing"
    /\ ~CompositionCycle(declaration)
    /\ Len(started) = Cardinality(Components)
    /\ phase' = "loop"
    /\ UNCHANGED <<declaration, started>>
    /\ UNCHANGED <<launcher_vars, sync_vars, ms_vars, analytics_vars>>

ComposeNext == reject_cycle \/ start_component \/ enter_loop

\* ======================================================== specifications
\* Each specification starts its own part where the code's constructor leaves
\* it and holds the variables of the other parts at fixed values.
\* AppsBuilder::new / to_apps: an empty channel and two empty maps.
Init ==
    /\ rx = <<>>
    /\ apps = [n \in AppNames |-> None]
    /\ dashboards = [n \in DashboardNames |-> None]
    /\ running = "running"
    /\ sent = 0
    /\ processed = 0
    /\ served = NoServed
    /\ hist = [n \in AppNames |-> NoHist]
    /\ sync_range = [from |-> 0, to |-> 0]
    /\ select_response = [kind |-> "None", rows |-> <<>>]
    /\ fetch = "pending"
    /\ sync_data = SyncData_default
    /\ taken = NoTake
    /\ requests = 0
    /\ drained = <<>>
    /\ milestone_data = MilestoneData_new(1, "Incoming")
    /\ ms_call = [op |-> "new", id |-> ""]
    /\ analytics = Ok(Analytics_zero)
    /\ an_call = NoAdd
    /\ declaration = MainDeclaration
    /\ started = <<>>
    /\ phase = "composing"

\* A SyncRange and the worker's answer to the select request, before
\* try_fetch has received it.
SyncInit ==
    /\ rx = <<>>
    /\ apps = [n \in AppNames |-> None]
    /\ dashboards = [n \in DashboardNames |-> None]
    /\ running = "running"
    /\ sent = 0
    /\ processed = 0
    /\ served = NoServed
    /\ hist = [n \in AppNames |-> NoHist]
    /\ sync_range \in SyncRanges
    /\ select_response \in Responses(sync_range)
    /\ fetch = "pending"
    /\ sync_data = SyncData_default
    /\ taken = NoTake
    /\ requests = 0
    /\ drained = <<>>
    /\ milestone_data = MilestoneData_new(1, "Incoming")
    /\ ms_call = [op |-> "new", id |-> ""]
    /\ analytics = Ok(Analytics_zero)
    /\ an_call = NoAdd
    /\ declaration = MainDeclaration
    /\ started = <<>>
    /\ phase = "composing"

\* MilestoneData::new.
MsInit ==
    /\ rx = <<>>
    /\ apps = [n \in AppNames |-> None]
    /\ dashboards = [n \in DashboardNames |-> None]
    /\ running = "running"
    /\ sent = 0
    /\ processed = 0
    /\ served = NoServed
    /\ hist = [n \in AppNames |-> NoHist]
    /\ sync_range = [from |-> 0, to |-> 0]
    /\ select_response = [kind |-> "None", rows |-> <<>>]
    /\ fetch = "pending"
    /\ sync_data = SyncData_default
    /\ taken = NoTake
    /\ requests = 0
    /\ drained = <<>>
    /\ milestone_data \in { MilestoneData_new(1, c) : c \in CreatedBy }
    /\ ms_call = [op |-> "new", id |-> ""]
    /\ analytics = Ok(Analytics_zero)
    /\ an_call = NoAdd
    /\ declaration = MainDeclaration
    /\ started = <<>>
    /\ phase = "composing"

\* A declaration handed to launcher!, nothing started yet.
ComposeInit ==
    /\ rx = <<>>
    /\ apps = [n \in AppNames |-> None]
    /\ dashboards = [n \in DashboardNames |-> None]
    /\ running = "running"
    /\ sent = 0
    /\ processed = 0
    /\ served = NoServed
    /\ hist = [n \in AppNames |-> NoHist]
    /\ sync_range = [from |-> 0, to |-> 0]
    /\ select_response = [kind |-> "None", rows |-> <<>>]
    /\ fetch = "pending"
    /\ sync_data = SyncData_default
    /\ taken = NoTake
    /\ requests = 0
    /\ drained = <<>>
    /\ milestone_data = MilestoneData_new(1, "Incoming")
    /\ ms_call = [op |-> "new", id |-> ""]
    /\ analytics = Ok(Analytics_zero)
    /\ an_call = NoAdd
    /\ declaration \in Declarations
    /\ started = <<>>
    /\ phase = "composing"

\* An Analytics value (deserialized) in a build with or without overflow
\* checks, before anything is added to it.
AnalyticsInit ==
    /\ rx = <<>>
    /\ apps = [n \in AppNames |-> None]
    /\ dashboards = [n \in DashboardNames |-> None]
    /\ running = "running"
    /\ sent = 0
    /\ processed = 0
    /\ served = NoServed
    /\ hist = [n \in AppNames |-> NoHist]
    /\ sync_range = [from |-> 0, to |-> 0]
    /\ select_response = [kind |-> "None", rows |-> <<>>]
    /\ fetch = "pending"
    /\ sync_data = SyncData_default
    /\ taken = NoTake
    /\ requests = 0
    /\ drained = <<>>
    /\ milestone_data = MilestoneData_new(1, "Incoming")
    /\ ms_call = [op |-> "new", id |-> ""]
    /\ analytics \in { Ok(a) : a \in AnalyticsValues }
    /\ an_call \in { [NoAdd EXCEPT !.overflow_checks = b] : b \in BOOLEAN }
    /\ declaration = MainDeclaration
    /\ started = <<>>
    /\ phase = "composing"

\* The launcher's control loop and its producers.
Spec == Init /\ [][Next]_vars

\* The control loop with crash-looping components as its only producers.
SpecCrashLoop == Init /\ [][CrashLoopNext]_vars

\* SyncData built by try_fetch, then drained by the take_* operations.
SpecSync == SyncInit /\ [][SyncNext]_vars

\* SyncData built by try_fetch, then drained by take_lowest_uncomplete alone.
SpecDrain == SyncInit /\ [][DrainNext]_vars

\* A MilestoneData and the operations on it.
SpecMs == MsInit /\ [][MsNext]_vars

\* The start of the components before the control loop.
SpecCompose == ComposeInit /\ [][ComposeNext]_vars

\* Analytics values added up.
SpecAnalytics == AnalyticsInit /\ [][AnalyticsNext]_vars

\* ================================================================ claims
Indices(r) == r.start .. (r.end - 1)

\* The (sequence, position) pairs of the ranges of sd that contain index i.
Holders(sd, i) ==
    { <<"completed", j>> : j \in { k \in DOMAIN sd.completed : i \in Indices(sd.completed[k]) } }
    \cup
    { <<"synced_but_unlogged", j>> :
        j \in { k \in DOMAIN sd.synced_but_unlogged : i \in Indices(sd.synced_but_unlogged[k]) } }
    \cup
    { <<"gaps", j>> : j \in { k \in DOMAIN sd.gaps : i \in Indices(sd.gaps[k]) } }

AllRanges(sd) ==
    { sd.completed[j] : j \in DOMAIN sd.completed } \cup
    { sd.synced_but_unlogged[j] : j \in DOMAIN sd.synced_but_unlogged } \cup
    { sd.gaps[j] : j \in DOMAIN sd.gaps }

JustBuilt == fetch = "built" /\ taken = NoTake

\* C3: the SyncData built by try_fetch over [from, to) from a strictly
\* descending stream of distinct in-range records covers every index of
\* [from, to) exactly once with its completed, synced_but_unlogged and gaps
\* ranges, and covers no index outside [from, to).
C3_Partition ==
    JustBuilt =>
        /\ \A i \in sync_range.from .. (sync_range.to - 1) :
              Cardinality(Holders(sync_data, i)) = 1
        /\ \A r \in AllRanges(sync_data) :
              sync_range.from <= r.start /\ r.start < r.end /\ r.end <= sync_range.to

C3_Witness ==
    /\ JustBuilt
    /\ Len(sync_data.completed) >= 1
    /\ Len(sync_data.synced_but_unlogged) >= 1
    /\ Len(sync_data.gaps) >= 2

Ordered(v) ==
    /\ \A j \in DOMAIN v : v[j].start < v[j].end
    /\ \A j \in 1 .. (Len(v) - 1) : v[j + 1].end <= v[j].start

\* C6: after construction and after every take_* call each of completed,
\* synced_but_unlogged and gaps holds non-empty, pairwise disjoint ranges in
\* strictly descending order of start (so the last element is the lowest).
C6_Ordering ==
    fetch = "built" =>
        /\ Ordered(sync_data.completed)
        /\ Ordered(sync_data.synced_but_unlogged)
        /\ Ordered(sync_data.gaps)

C6_Witness ==
    /\ fetch = "built"
    /\ taken.op = "take_lowest_uncomplete"
    /\ is_some(taken.ret)
    /\ Len(sync_data.completed) >= 2
    /\ Len(sync_data.gaps) >= 1

\* The gap and unlogged ranges of sd, as a set.
Uncomplete(sd) ==
    { sd.gaps[j] : j \in DOMAIN sd.gaps } \cup
    { sd.synced_but_unlogged[j] : j \in DOMAIN sd.synced_but_unlogged }

Lowest(S) == CHOOSE r \in S : \A q \in S : r.start <= q.start

\* Where the run of abutting ranges of S that begins at end e stops.
RECURSIVE ChainEnd(_, _)
ChainEnd(S, e) ==
    IF \E q \in S : q.start = e
    THEN ChainEnd(S, (CHOOSE q \in S : q.start = e).end)
    ELSE e

IsPrefix(a, b) == Len(a) <= Len(b) /\ a = SubSeq(b, 1, Len(a))

\* C4: take_lowest_uncomplete returns one range that starts at the lowest
\* start among the remaining gap and unlogged ranges and ends where the run
\* of abutting gap/unlogged ranges from there ends; it removes exactly the
\* ranges of that run (nothing lower is left behind) and returns None when
\* both sequences are empty.
C4_TakeLowestUncomplete ==
    [][ (fetch = "built" /\ taken'.op = "take_lowest_uncomplete") =>
          LET U == Uncomplete(sync_data) IN
          IF U = {}
          THEN taken'.ret = None /\ sync_data' = sync_data
          ELSE LET lo == Lowest(U)
                   e == ChainEnd(U, lo.end)
               IN /\ taken'.ret = Some(Range(lo.start, e))
                  /\ Uncomplete(sync_data') = { q \in U : q.start >= e }
                  /\ IsPrefix(sync_data'.gaps, sync_data.gaps)
                  /\ IsPrefix(sync_data'.synced_but_unlogged, sync_data.synced_but_unlogged)
                  /\ sync_data'.completed = sync_data.completed
      ]_vars

\* A gap [0, 1) and an unlogged record 1 were merged into [0, 2), and a
\* further gap or unlogged range stays behind.
C4_Witness ==
    /\ fetch = "built"
    /\ taken = [op |-> "take_lowest_uncomplete", ret |-> Some(Range(0, 2))]
    /\ \E j \in DOMAIN select_response.rows :
          select_response.rows[j] = [milestone_index |-> 1, logged_by |-> None]
    /\ \A j \in DOMAIN select_response.rows : select_response.rows[j].milestone_index # 0
    /\ Uncomplete(sync_data) # {}

C26_NoEqualStarts ==
    (fetch = "built" /\ sync_data.gaps # <<>> /\ sync_data.synced_but_unlogged # <<>>) =>
        last(sync_data.gaps).start # last(sync_data.synced_but_unlogged).start

\* C13: try_fetch sends one select request; when the worker reports failure
\* or the response channel closes without a response it returns an error and
\* no SyncData, and it returns a SyncData only after a successful response.
C13_FetchError ==
    /\ requests <= 1
    /\ fetch = "pending" => requests = 0
    /\ (fetch # "pending" /\ select_response.kind \in {"Closed", "Err"}) =>
          fetch = "error" /\ sync_data = SyncData_default /\ requests = 1
    /\ fetch = "error" => sync_data = SyncData_default
    /\ fetch = "built" => select_response.kind \in {"None", "Some"} /\ requests = 1

\* try_fetch has returned an error after the channel closed on its one
\* request.
C13_Witness ==
    /\ fetch = "error"
    /\ select_response.kind = "Closed"
    /\ requests = 1

\* The records of the response, as a set, and the sequence a queried index
\* belongs to: by its record's logged_by, or gaps when it has no record.
Rows == { select_response.rows[j] : j \in DOMAIN select_response.rows }

Class(i) ==
    IF \E r \in Rows : r.milestone_index = i /\ is_some(r.logged_by) THEN "completed"
    ELSE IF \E r \in Rows : r.milestone_index = i THEN "synced_but_unlogged"
    ELSE "gaps"

InSome(v, i) == \E j \in DOMAIN v : i \in Indices(v[j])

\* The example of the specification: three records over [90, 101).
ExampleRange == [from |-> 90, to |-> 101]
ExampleRows ==
    << [milestone_index |-> 100, logged_by |-> Some(1)],
       [milestone_index |-> 98, logged_by |-> None],
       [milestone_index |-> 95, logged_by |-> Some(1)] >>
ExampleBuilt ==
    LET b == build_from_rows(ExampleRange, ExampleRows)
    IN process_gaps(b.sd, b.pre_ms, ExampleRange.from - 1)

\* C19: in the SyncData that try_fetch returns, every index with a record
\* whose logged_by is present lies in a completed range, every index with a
\* record whose logged_by is absent lies in a synced_but_unlogged range, and
\* every index of [from, to) without a record lies in a gap; records
\* (100, Some), (98, None), (95, Some) over [90, 101) give completed
\* [100,101), [95,96), unlogged [98,99) and gaps [99,100), [96,98), [90,95).
C19_Classification ==
    /\ JustBuilt =>
          \A i \in sync_range.from .. (sync_range.to - 1) : InSome(sync_data[Class(i)], i)
    /\ ExampleBuilt =
          [completed |-> <<Range(100, 101), Range(95, 96)>>,
           synced_but_unlogged |-> <<Range(98, 99)>>,
           gaps |-> <<Range(99, 100), Range(96, 98), Range(90, 95)>>]

\* A SyncData was built from a logged record, an unlogged record and at
\* least one more, with an index left without a record.
C19_Witness ==
    /\ JustBuilt
    /\ Len(select_response.rows) >= 3
    /\ \E r \in Rows : is_some(r.logged_by)
    /\ \E r \in Rows : is_none(r.logged_by)
    /\ \E i \in sync_range.from .. (sync_range.to - 1) : Class(i) = "gaps"

NoAbut(v) == \A j, k \in DOMAIN v : v[j].end # v[k].start

\* C20: in the SyncData that try_fetch returns every range of every sequence
\* is a maximal run of consecutive indices of one classification: all its
\* indices belong to its sequence, the queried index just below it and the
\* one just above it do not, and no two ranges of one sequence abut. Records
\* with adjacent indices and the same classification therefore share a
\* range, and a change of classification starts a new one.
C20_Coalescing ==
    JustBuilt =>
        \A name \in {"completed", "synced_but_unlogged", "gaps"} :
            /\ NoAbut(sync_data[name])
            /\ \A j \in DOMAIN sync_data[name] :
                  LET r == sync_data[name][j] IN
                  /\ \A i \in Indices(r) : Class(i) = name
                  /\ (r.start - 1) \in sync_range.from .. (sync_range.to - 1) =>
                        Class(r.start - 1) # name
                  /\ r.end \in sync_range.from .. (sync_range.to - 1) =>
                        Class(r.end) # name

\* Two adjacent logged records share one completed range, and an unlogged
\* record right below them starts a range of its own.
C20_Witness ==
    /\ JustBuilt
    /\ \E j \in DOMAIN sync_data.completed :
          /\ sync_data.completed[j].end - sync_data.completed[j].start >= 2
          /\ \E k \in DOMAIN sync_data.synced_but_unlogged :
                sync_data.synced_but_unlogged[k].end = sync_data.completed[j].start

\* C21: when the response to the request over [from, to) carries no
\* records, try_fetch returns a SyncData whose completed and
\* synced_but_unlogged are empty and whose gaps are the one range [from, to),
\* or no range at all when from = to.
C21_EmptyStream ==
    (fetch # "pending" /\ select_response.kind \in {"None", "Some"}
        /\ select_response.rows = <<>>) =>
        /\ fetch = "built"
        /\ taken = NoTake =>
              sync_data =
                 [completed |-> <<>>,
                  synced_but_unlogged |-> <<>>,
                  gaps |-> IF sync_range.from = sync_range.to
                           THEN <<>>
                           ELSE <<Range(sync_range.from, sync_range.to)>>]

\* Some take operations have run and a gap and an unlogged range are both
\* still there to be compared.
C26_Witness ==
    /\ fetch = "built"
    /\ Len(drained) >= 2
    /\ sync_data.gaps # <<>>
    /\ sync_data.synced_but_unlogged # <<>>

\* The indices covered by the ranges of a sequence or set of ranges.
Covered(S) == UNION { Indices(r) : r \in S }
DrainedRanges == { drained[j] : j \in DOMAIN drained }
Queried == sync_range.from .. (sync_range.to - 1)

\* C25: draining a SyncData built by try_fetch with take_lowest_uncomplete
\* alone returns finitely many ranges, with strictly ascending starts and
\* neither abutting nor overlapping, that hold no completed index and,
\* together with what is still left, every gap and unlogged index of
\* [from, to) exactly once; completed never changes; and once the gap and
\* unlogged sequences are empty every take operation returns None.
C25_Drain ==
    /\ [](fetch = "built" =>
            /\ Len(drained) <= sync_range.to - sync_range.from
            /\ \A j \in 1 .. (Len(drained) - 1) : drained[j].end < drained[j + 1].start
            /\ Covered(DrainedRanges) \cap Covered(Uncomplete(sync_data)) = {}
            /\ Covered(DrainedRanges) \cup Covered(Uncomplete(sync_data))
                  = { i \in Queried : Class(i) # "completed" }
            /\ Covered({ sync_data.completed[j] : j \in DOMAIN sync_data.completed })
                  = { i \in Queried : Class(i) = "completed" }
            /\ Uncomplete(sync_data) = {} =>
                  /\ take_lowest_uncomplete(sync_data) = [sd |-> sync_data, ret |-> None]
                  /\ take_lowest_gap_or_unlogged(sync_data) = [sd |-> sync_data, ret |-> None]
                  /\ take_lowest_gap(sync_data) = [sd |-> sync_data, ret |-> None]
                  /\ take_lowest_unlogged(sync_data) = [sd |-> sync_data, ret |-> None])
    /\ [][ fetch = "built" => sync_data'.completed = sync_data.completed ]_vars

\* Two ranges were drained, nothing is left, and one more call returned None.
C25_Witness ==
    /\ fetch = "built"
    /\ Len(drained) >= 2
    /\ Uncomplete(sync_data) = {}
    /\ taken = [op |-> "take_lowest_uncomplete", ret |-> None]
    /\ sync_data.completed # <<>>

\* ------------------------------------------------------ launcher claims
\* one_for_one has just taken AknShutdown(x) off the channel.
AknStep(x) ==
    /\ processed' = processed + 1
    /\ served'.ev = Event("AknShutdown", x, 0)

\* What a restart of x does: build-and-run x, then started_app(x) to every
\* dashboard registered in d.
RestartEffects(x, d) == <<Run(x), Notify("started_app", x, Registered(d))>>

\* C1: whenever AknShutdown(x) is handled after a RegisterApp(x) with no
\* ShutdownApp(x) handled in between, the start sequence of x is invoked
\* again and the dashboards are told that x (re)started.
C1_RestartOnCrash ==
    [][ \A x \in AppNames \cap DeclaredApps :
          (AknStep(x) /\ hist[x].rs = "RegisterApp") =>
              served'.effects = RestartEffects(x, dashboards)
      ]_vars

\* C2: in every interleaving of the producers, when AknShutdown(x) is
\* handled and the last RegisterApp(x) / ShutdownApp(x) handled before it was
\* a ShutdownApp(x), the start sequence of x is not invoked, every registered
\* dashboard is sent shutdown(x), and x stays without a handle.
C2_DeliberateShutdown ==
    [][ \A x \in AppNames :
          (AknStep(x) /\ hist[x].rs = "ShutdownApp") =>
              /\ served'.effects = <<Notify("shutdown_app", x, Registered(dashboards))>>
              /\ apps[x] = None
              /\ apps'[x] = None
              /\ running' = "running"
      ]_vars

\* The acknowledgment of a requested shutdown has just been handled and a
\* dashboard was told of the shutdown.
C2_Witness ==
    /\ served.ev.type = "AknShutdown"
    /\ hist[served.ev.name].rs = "ShutdownApp"
    /\ Len(served.effects) = 1
    /\ served.effects[1].kind = "shutdown_app"
    /\ served.effects[1].to # {}

\* C7: the one loop takes the events off the channel one at a time in the
\* order they were sent (the k-th event handled is the k-th event sent, the
\* oldest one queued), and the registry, the notifications and the loop's
\* state change only in the handling of an event: a send only appends to the
\* queue.
C7_TotalOrder ==
    [][ /\ processed' \in {processed, processed + 1}
        /\ processed' = processed + 1 =>
              /\ rx # <<>>
              /\ served'.ev = Head(rx).ev
              /\ served'.seq = processed'
              /\ rx' = Tail(rx)
              /\ sent' = sent
        /\ processed' = processed =>
              /\ UNCHANGED <<apps, dashboards, running, served, hist>>
              /\ sent' = sent + 1
              /\ \/ rx' = rx
                 \/ \E ev \in Events : rx' = Append(rx, [ev |-> ev, seq |-> sent'])
      ]_vars

\* An event has been handled while two later ones wait in the queue.
C7_Witness ==
    /\ processed >= 1
    /\ served.seq = processed
    /\ Len(rx) >= 2

\* one_for_one has just taken an event of this type off the channel.
Handled(type) ==
    /\ processed' = processed + 1
    /\ served'.ev.type = type

\* C11: Break ends the control loop and nothing else does. Once Break has
\* been handled no queued event is handled any more (no registry change, no
\* notification, no start), the loop stops only in the handling of a Break,
\* and after handling any RegisterApp, RegisterDashboard, StartApp,
\* ShutdownApp or AknShutdown the loop is still consuming events.
C11_BreakOnlyExit ==
    [][ /\ running = "stopped" =>
              UNCHANGED <<apps, dashboards, running, processed, served, hist>>
        /\ (running = "running" /\ running' = "stopped") => Handled("Break")
        /\ Handled("Break") => running' = "stopped"
        /\ \A t \in {"RegisterApp", "RegisterDashboard", "StartApp",
                     "ShutdownApp", "AknShutdown"} :
              Handled(t) => running' = "running"
      ]_vars

\* C12: nothing handed to the core aborts it: the control loop does not
\* panic on any event (AppsStatus, and StartApp / AknShutdown with any name,
\* included) and try_fetch does not panic on any storage response.
C12_NoAbort ==
    /\ running # "panicked"
    /\ fetch # "panicked"

\* C14: handling RegisterApp(name, handle) stores the handle under name, in
\* place of any handle stored there before, and sends started(name) to every
\* dashboard registered at that moment; no other component's handle and no
\* dashboard entry changes.
C14_RegisterApp ==
    [][ Handled("RegisterApp") =>
          LET ev == served'.ev IN
          /\ apps' = [apps EXCEPT ![ev.name] = Some(ev.handle)]
          /\ dashboards' = dashboards
          /\ served'.effects = <<Notify("started_app", ev.name, Registered(dashboards))>>
          /\ running' = "running"
      ]_vars

\* RegisterApp has been handled, a dashboard was told, and another
\* component holds its handle.
C14_Witness ==
    /\ served.ev.type = "RegisterApp"
    /\ apps[served.ev.name] = Some(served.ev.handle)
    /\ Len(served.effects) = 1
    /\ served.effects[1].to # {}
    /\ \E y \in AppNames \ {served.ev.name} : is_some(apps[y])

\* C15: handling ShutdownApp(name) removes name's handle when there is one
\* and calls shutdown on that handle once; with no handle it calls nothing;
\* either way no dashboard is notified and the loop goes on to the next
\* event without waiting for the acknowledgment.
C15_ShutdownApp ==
    [][ Handled("ShutdownApp") =>
          LET x == served'.ev.name IN
          /\ IF is_some(apps[x])
             THEN /\ apps' = [apps EXCEPT ![x] = None]
                  /\ served'.effects = <<ShutdownCall(x, unwrap(apps[x]))>>
             ELSE /\ apps' = apps
                  /\ served'.effects = <<>>
          /\ dashboards' = dashboards
          /\ rx' = Tail(rx)
          /\ running' = "running"
      ]_vars

\* ShutdownApp has been handled with a handle to shut down while a dashboard
\* is registered, and the loop is ready for the next event.
C15_Witness ==
    /\ served.ev.type = "ShutdownApp"
    /\ Len(served.effects) = 1
    /\ served.effects[1].kind = "shutdown"
    /\ apps[served.ev.name] = None
    /\ Registered(dashboards) # {}
    /\ running = "running"

\* C16: handling StartApp(name) runs the build-and-run call of the named
\* component to its return, then sends started(name) to every registered
\* dashboard, all before any event queued behind it is handled; the registry
\* of shutdown handles is not changed.
C16_StartApp ==
    [][ \A x \in DeclaredApps :
          (Handled("StartApp") /\ served'.ev.name = x) =>
              /\ served'.effects =
                    <<Run(x), Notify("started_app", x, Registered(dashboards))>>
              /\ apps' = apps
              /\ dashboards' = dashboards
              /\ rx' = Tail(rx)
              /\ running' = "running"
      ]_vars

\* StartApp has been handled: the component ran, then a dashboard was told,
\* while another event waited in the queue.
C16_Witness ==
    /\ served.ev.type = "StartApp"
    /\ Len(served.effects) = 2
    /\ served.effects[1].kind = "run"
    /\ served.effects[2].to # {}
    /\ rx # <<>>

\* C17: handling RegisterDashboard(name, handle) stores the handle under
\* name, in place of any handle stored there before, and sends nothing; and
\* every notification goes to the dashboards registered before its event was
\* handled, so a dashboard is told only of events handled after its own
\* registration.
C17_RegisterDashboard ==
    [][ /\ Handled("RegisterDashboard") =>
              LET ev == served'.ev IN
              /\ dashboards' = [dashboards EXCEPT ![ev.name] = Some(ev.handle)]
              /\ apps' = apps
              /\ served'.effects = <<>>
        /\ processed' = processed + 1 =>
              \A j \in DOMAIN served'.effects :
                  served'.effects[j].to \subseteq Registered(dashboards)
      ]_vars

\* A dashboard has been registered while a component already holds a
\* handle, and nothing was sent.
C17_Witness ==
    /\ served.ev.type = "RegisterDashboard"
    /\ dashboards[served.ev.name] = Some(served.ev.handle)
    /\ served.effects = <<>>
    /\ \E x \in AppNames : is_some(apps[x])

\* C22: the policy has no backoff and no ceiling: every time a component
\* that registered acknowledges a shutdown nobody requested, the loop invokes
\* its start sequence once more (one start per acknowledgment), however many
\* times it has restarted it before.
C22_UnboundedRestart ==
    [][ \A x \in AppNames \cap DeclaredApps :
          AknStep(x) =>
              /\ hist[x].rsa = "RegisterApp"
              /\ served'.effects = RestartEffects(x, dashboards)
              /\ running' = "running"
      ]_vars

\* One component has gone through MaxCrashes cycles, all handled, and its
\* last acknowledgment was answered by a restart like the ones before.
C22_Witness ==
    /\ sent = 2 * MaxCrashes
    /\ processed = 2 * MaxCrashes
    /\ rx = <<>>
    /\ served.ev.type = "AknShutdown"
    /\ served.effects = <<Run(served.ev.name),
                          Notify("started_app", served.ev.name, Registered(dashboards))>>
    /\ \A y \in AppNames \ {served.ev.name} : hist[y].rsa = "none"

\* C23: handling AknShutdown(x) or ShutdownApp(x) starts, restarts or shuts
\* down component x only: the handle of every other component stays as it
\* is, and no start sequence and no shutdown of another component is invoked.
C23_Isolation ==
    [][ (Handled("AknShutdown") \/ Handled("ShutdownApp")) =>
          LET x == served'.ev.name IN
          /\ \A y \in AppNames \ {x} : apps'[y] = apps[y]
          /\ \A j \in DOMAIN served'.effects :
                served'.effects[j].kind \in {"run", "shutdown"} =>
                    served'.effects[j].app = x
      ]_vars

\* A component was restarted on its AknShutdown while another component
\* holds a handle.
C23_Witness ==
    /\ served.ev.type = "AknShutdown"
    /\ Len(served.effects) = 2
    /\ served.effects[1] = Run(served.ev.name)
    /\ \E y \in AppNames \ {served.ev.name} : is_some(apps[y])

\* C24: handling AknShutdown(x) leaves x without a handle, restart or not,
\* and only the handling of RegisterApp(x) gives x a handle; so an
\* AknShutdown(x) handled after another AknShutdown(x), with no RegisterApp(x)
\* handled in between, starts nothing and sends shutdown(x) to the dashboards.
C24_HandleGoneAfterAkn ==
    /\ [](\A x \in AppNames : hist[x].rsa = "AknShutdown" => apps[x] = None)
    /\ [][ \A x \in AppNames :
             /\ AknStep(x) => apps'[x] = None
             /\ (apps[x] = None /\ apps'[x] # None) =>
                   (Handled("RegisterApp") /\ served'.ev.name = x)
             /\ (AknStep(x) /\ hist[x].rsa = "AknShutdown") =>
                   served'.effects = <<Notify("shutdown_app", x, Registered(dashboards))>>
         ]_vars

\* A component registered and was never asked to shut down, yet its latest
\* AknShutdown, the second in a row, was answered by a shutdown notification.
C24_Witness ==
    /\ served.ev.type = "AknShutdown"
    /\ hist[served.ev.name].rs = "RegisterApp"
    /\ Len(served.effects) = 1
    /\ served.effects[1].kind = "shutdown_app"

\* --------------------------------------------------- composition claim
\* A declaration has a cycle when some non-empty set of components each
\* require a member of the set.
Cyclic(d) ==
    \E S \in (SUBSET Components) \ {{}} : \A c \in S : d[c] \cap S # {}

C9_Completion ==
    /\ [](ms_call.op = "new" => ~is_complete(milestone_data))
    /\ [][ /\ (ms_call'.op = "set_milestone" /\ pending(milestone_data') # {}) =>
                 ~is_complete(milestone_data')
           /\ (ms_call'.op = "set_milestone" /\ milestone_data' # milestone_data
                 /\ pending(milestone_data) = {}) =>
                 is_complete(milestone_data')
           /\ (ms_call'.op = "remove_from_pending" /\ milestone_exist(milestone_data)
                 /\ pending(milestone_data) = {ms_call'.id}) =>
                 is_complete(milestone_data')
           /\ is_complete(milestone_data') <=>
                 (milestone_data'.milestone # None /\ milestone_data'.pending = {})
         ]_vars

\* The payload is set, the last call removed a pending entry, and nothing is
\* pending any more.
C9_Witness ==
    /\ ms_call.op = "remove_from_pending"
    /\ milestone_exist(milestone_data)
    /\ pending(milestone_data) = {}
    /\ is_complete(milestone_data)

\* C10: in every state reachable through new, set_milestone,
\* add_full_message, remove_from_pending and the insertion of referenced
\* identifiers into pending, no message identifier is in both messages and
\* pending.
C10_MessagesPendingDisjoint ==
    messages(milestone_data) \cap pending(milestone_data) = {}

\* ------------------------------------------------------- Analytics claim
\* C18: Analytics addition adds the three counters field by field, is
\* commutative and associative, and the all-zero Analytics is its identity
\* (zero + x = x); an addition whose counter does not fit panics or wraps the
\* same way whichever way the operands are ordered or grouped.
C18_AnalyticsAdd ==
    /\ [](an_call.op = "add" =>
            LET l == an_call.lhs
                r == an_call.rhs
                oc == an_call.overflow_checks
                fits == /\ l.transaction_count + r.transaction_count <= MaxCount
                        /\ l.message_count + r.message_count <= MaxCount
                        /\ l.transferred_tokens + r.transferred_tokens <= MaxCount
            IN /\ fits => analytics = Ok(Analytics(l.transaction_count + r.transaction_count,
                                                  l.message_count + r.message_count,
                                                  l.transferred_tokens + r.transferred_tokens))
               /\ (~fits /\ oc) => analytics.panic
               /\ (~fits /\ ~oc) =>
                     analytics = Ok(Analytics(
                        (l.transaction_count + r.transaction_count) % (MaxCount + 1),
                        (l.message_count + r.message_count) % (MaxCount + 1),
                        (l.transferred_tokens + r.transferred_tokens) % (MaxCount + 1)))
               /\ analytics = add(r, l, oc)
               /\ add(Analytics_zero, r, oc) = Ok(r)
               /\ add(r, Analytics_zero, oc) = Ok(r)
               /\ analytics.panic =>
                     \A v \in AnalyticsValues : then_add(add(r, v, oc), l, oc).panic)
    /\ [][ (an_call.op = "add" /\ an_call'.op = "add") =>
              analytics' = then_add(add(an_call.rhs, an_call'.rhs, an_call.overflow_checks),
                                    an_call.lhs, an_call.overflow_checks)
         ]_vars

\* Two Analytics with all counters non-zero were added and the sum fits.
C18_Witness ==
    /\ an_call.op = "add"
    /\ ~analytics.panic
    /\ an_call.lhs # an_call.rhs
    /\ \A f \in {"transaction_count", "message_count", "transferred_tokens"} :
          /\ an_call.lhs[f] > 0
          /\ an_call.rhs[f] > 0
          /\ analytics.value[f] = an_call.lhs[f] + an_call.rhs[f]

====
